---------------------------- MODULE Spec2Model ----------------------------
(***************************************************************************)
(* Model of stargazers.flow.py: the Prefect flow "Stargazers" with its     *)
(* three task classes (GetStars, ShouldNotify, NotificationMessage), the   *)
(* SlackTask it feeds, and the 5-minute weekday schedule the file names.   *)
(*                                                                         *)
(* Text is modelled as a sequence of characters (one-character strings;    *)
(* "STAR" stands for the single code point U+2B50), so that formatting is  *)
(* computed and not assumed.  A task result that is still None is the      *)
(* empty sequence, a result v is <<v>>.                                    *)
(***************************************************************************)
EXTENDS Integers, Sequences, FiniteSets

VARIABLES
    repository,      \* Parameter "repository" (a text)
    owner,           \* Parameter "owner" (a text)
    state,           \* the Prefect state of each task of the run
    task_run_count,  \* how many times each task's run() was entered in this run
    stars,           \* result of GetStars
    now,             \* prefect.context["date"] as read by ShouldNotify: <<hour, minute>>
    should_notify,   \* result of ShouldNotify
    message,         \* result of NotificationMessage
    responses,       \* the kinds of outcome the GetStars attempts of this run met
    posts,           \* POSTs made to the GraphQL endpoint in this run
    sends,           \* POSTs made to the Slack webhook in this run
    flowState,       \* state of the flow run
    runs,            \* flow runs started so far
    prevStars,       \* result of GetStars in the previous run
    prevNotified,    \* whether the previous run delivered its notification
    weekday,         \* schedule: day of the week of the current event, 0 = Monday
    clock,           \* schedule: minute of the day of the current event
    ran,             \* schedule: the current event has been handled
    hits             \* schedule: runs of the current day whose decision was true

vars == <<repository, owner, state, task_run_count, stars, now, should_notify,
          message, responses, posts, sends, flowState, runs, prevStars,
          prevNotified, weekday, clock, ran, hits>>

schedVars == <<weekday, clock, ran, hits>>

---------------------------------------------------------------------------
(* Bounds of the model *)

MaxStars == 2000

MaxRuns == 2

---------------------------------------------------------------------------
(* Inputs *)

\* Star counts: around every multiple of 1000 up to MaxStars.
Counts == {c \in 0..MaxStars : c % 1000 \in {0, 1, 500, 999}}

Hours == 0..23

Minutes == 0..59

\* Parameter("repository", default="prefect")
DefaultRepository == <<"p", "r", "e", "f", "e", "c", "t">>

\* Parameter("owner", default="PrefectHQ")
DefaultOwner == <<"P", "r", "e", "f", "e", "c", "t", "H", "Q">>

RepositoryNames ==
    {DefaultRepository,
     <<"s", "t", "a", "r", "g", "a", "z", "e", "r", "s">>,
     <<"c", "l", "i">>}

OwnerNames ==
    {DefaultOwner,
     <<"z", "n", "i", "c", "h", "o", "l", "a", "s", "b", "r", "o", "w", "n">>,
     <<"o", "c", "t", "o", "c", "a", "t">>}

---------------------------------------------------------------------------
(* ShouldNotify.run *)

ShouldNotifyRunNoMilestone(count, hour, minute) ==
    hour = 9 /\ minute >= 0 /\ minute <= 5

ShouldNotifyRunWholeHour(count, hour, minute) ==
    count % 1000 = 0 \/ hour = 9

ShouldNotifyRunOpenWindow(count, hour, minute) ==
    count % 1000 = 0 \/ (hour = 9 /\ minute > 0 /\ minute < 5)

ShouldNotifyRun(count, hour, minute) ==
    count % 1000 = 0 \/ (hour = 9 /\ minute >= 0 /\ minute <= 5)

---------------------------------------------------------------------------
(* NotificationMessage.run *)

Digit(d) ==
    CASE d = 0 -> "0" [] d = 1 -> "1" [] d = 2 -> "2" [] d = 3 -> "3"
      [] d = 4 -> "4" [] d = 5 -> "5" [] d = 6 -> "6" [] d = 7 -> "7"
      [] d = 8 -> "8" [] d = 9 -> "9"

\* str(n) of a non-negative integer, as the f-string formats {stars}
RECURSIVE Str(_)
Str(n) == IF n < 10 THEN <<Digit(n)>> ELSE Str(n \div 10) \o <<Digit(n % 10)>>

\* f"⭐⭐The {repository} repo has reached {stars}⭐⭐!"
HeaderText(repo, count) ==
    <<"STAR", "STAR", "T", "h", "e", " ">> \o repo
    \o <<" ", "r", "e", "p", "o", " ", "h", "a", "s", " ",
         "r", "e", "a", "c", "h", "e", "d", " ">>
    \o Str(count) \o <<"STAR", "STAR", "!">>

\* "See all the new stargazers <https://github.com/{owner}/{repository}/stargazers|here>"
\* is a plain string literal, not an f-string: the braces and the words
\* between them are copied as written and neither argument is read.
BodyText(repo, own) ==
    <<"S", "e", "e", " ", "a", "l", "l", " ", "t", "h", "e", " ", "n", "e", "w",
      " ", "s", "t", "a", "r", "g", "a", "z", "e", "r", "s", " ", "<">>
    \o <<"h", "t", "t", "p", "s", ":", "/", "/", "g", "i", "t", "h", "u", "b",
         ".", "c", "o", "m", "/">>
    \o <<"{", "o", "w", "n", "e", "r", "}">> \o <<"/">>
    \o <<"{", "r", "e", "p", "o", "s", "i", "t", "o", "r", "y", "}">>
    \o <<"/", "s", "t", "a", "r", "g", "a", "z", "e", "r", "s">>
    \o <<"|", "h", "e", "r", "e", ">">>

NotificationMessageRun(repo, own, count) ==
    [blocks |->
        << [type |-> "header",
            text |-> [type |-> "plain_text",
                      text |-> HeaderText(repo, count),
                      emoji |-> TRUE]],
           [type |-> "section",
            text |-> [type |-> "mrkdwn", text |-> BodyText(repo, own)]] >>]

---------------------------------------------------------------------------
(* The flow "Stargazers": tasks, their states and their dependencies *)

Tasks == {"stars", "should_notify", "case", "message", "notification"}

None == <<>>

FreshStates == [t \in Tasks |-> "Pending"]

FreshCounts == [t \in Tasks |-> 0]

\* GetStars(name="Get Stars", max_retries=2, retry_delay=timedelta(minutes=1))
max_retries == 2

\* SlackTask(webhook_secret=...) is given no max_retries: the task default, none
slack_max_retries == 0

\* The task runner's check after a failed run: a Retrying state while the
\* number of runs so far does not exceed max_retries, else Failed.
StarsShouldRetryOneMore(run_count) == max_retries + 1 >= run_count

StarsShouldRetry(run_count) == max_retries >= run_count

NotifyShouldRetryLikeStars(run_count) == max_retries >= run_count

NotifyShouldRetry(run_count) == slack_max_retries >= run_count

\* What one attempt of GetStars.run can meet:
\*   no_token    Secret("GITHUB_AUTH_TOKEN").get() raises, before any request
\*   http_error  the POST is made and raise_for_status() raises
\*   malformed   the POST is made, the status is fine, and the body has no
\*               data.repository.stargazers.totalCount
\*   ok          the POST is made and the count is read
Responses == {"no_token", "http_error", "malformed", "ok"}

\* GetStars.execute makes its one requests.post unless run() raised before it
Posted(resp) == resp # "no_token"

\* Whether the attempt raises instead of returning a count
RaisesUncheckedStatus(resp) == resp \in {"no_token", "malformed"}

Raises(resp) == resp # "ok"

\* What one run of the SlackTask can meet: the webhook secret is missing, the
\* POST is made and rejected, the POST is made and accepted.
SlackResponses == {"no_token", "http_error", "ok"}

Finished(s) == s \in {"Success", "Failed", "TriggerFailed", "Skipped"}

\* What the task runner does with a task whose upstream tasks are all
\* finished: a failed upstream fails the trigger, a skipped upstream skips
\* the task, otherwise the task runs.
UpstreamVerdictIgnoringSkip(ups) ==
    IF \E u \in ups : state[u] \in {"Failed", "TriggerFailed"} THEN "TriggerFailed"
    ELSE "Run"

UpstreamVerdict(ups) ==
    IF \E u \in ups : state[u] \in {"Failed", "TriggerFailed"} THEN "TriggerFailed"
    ELSE IF \E u \in ups : state[u] = "Skipped" THEN "Skipped"
    ELSE "Run"

\* with case(should_notify, True): the block runs when the value equals True
CaseMatchesAlways(value) == TRUE

CaseMatches(value) == value = TRUE

\* The clock readings and the counts the flow runs are checked with
FlowTimes == {<<9, 0>>, <<9, 5>>, <<9, 6>>, <<10, 2>>}

FlowCounts == {c \in Counts : c % 1000 \in {0, 999}}

---------------------------------------------------------------------------
(* One flow run, task by task *)

\* stars = GetStars(...)(repository=repository, owner=owner): one attempt
GetStarsTask ==
    /\ flowState = "Running"
    /\ state["stars"] \in {"Pending", "Retrying"}
    /\ task_run_count' = [task_run_count EXCEPT !["stars"] = @ + 1]
    /\ \E resp \in Responses :
        /\ responses' = responses \cup {resp}
        /\ posts' = IF Posted(resp) THEN posts + 1 ELSE posts
        /\ IF Raises(resp)
           THEN /\ stars' = stars
                /\ state' = [state EXCEPT !["stars"] =
                                IF StarsShouldRetry(task_run_count'["stars"])
                                THEN "Retrying" ELSE "Failed"]
           ELSE /\ \E c \in FlowCounts : stars' = <<c>>
                /\ state' = [state EXCEPT !["stars"] = "Success"]
    /\ UNCHANGED <<repository, owner, now, should_notify, message, sends,
                   flowState, runs, prevStars, prevNotified, schedVars>>

\* should_notify = ShouldNotify()(stars=stars)
ShouldNotifyTask ==
    /\ flowState = "Running"
    /\ state["should_notify"] = "Pending"
    /\ Finished(state["stars"])
    /\ IF UpstreamVerdict({"stars"}) = "Run"
       THEN \E t \in FlowTimes :
            /\ now' = t
            /\ should_notify' = <<ShouldNotifyRun(stars[1], t[1], t[2])>>
            /\ state' = [state EXCEPT !["should_notify"] = "Success"]
            /\ task_run_count' = [task_run_count EXCEPT !["should_notify"] = @ + 1]
       ELSE /\ state' = [state EXCEPT !["should_notify"] = UpstreamVerdict({"stars"})]
            /\ UNCHANGED <<now, should_notify, task_run_count>>
    /\ UNCHANGED <<repository, owner, stars, message, responses, posts, sends,
                   flowState, runs, prevStars, prevNotified, schedVars>>

\* with case(should_notify, True): the condition that guards the block
CaseTask ==
    /\ flowState = "Running"
    /\ state["case"] = "Pending"
    /\ Finished(state["should_notify"])
    /\ IF UpstreamVerdict({"should_notify"}) = "Run"
       THEN /\ state' = [state EXCEPT !["case"] =
                            IF CaseMatches(should_notify[1])
                            THEN "Success" ELSE "Skipped"]
            /\ task_run_count' = [task_run_count EXCEPT !["case"] = @ + 1]
       ELSE /\ state' = [state EXCEPT !["case"] = UpstreamVerdict({"should_notify"})]
            /\ UNCHANGED task_run_count
    /\ UNCHANGED <<repository, owner, stars, now, should_notify, message,
                   responses, posts, sends, flowState, runs, prevStars,
                   prevNotified, schedVars>>

\* message = NotificationMessage()(repository=repository, owner=owner, stars=stars)
NotificationMessageTask ==
    /\ flowState = "Running"
    /\ state["message"] = "Pending"
    /\ Finished(state["case"]) /\ Finished(state["stars"])
    /\ IF UpstreamVerdict({"case", "stars"}) = "Run"
       THEN /\ message' = <<NotificationMessageRun(repository, owner, stars[1])>>
            /\ state' = [state EXCEPT !["message"] = "Success"]
            /\ task_run_count' = [task_run_count EXCEPT !["message"] = @ + 1]
       ELSE /\ state' = [state EXCEPT !["message"] = UpstreamVerdict({"case", "stars"})]
            /\ UNCHANGED <<message, task_run_count>>
    /\ UNCHANGED <<repository, owner, stars, now, should_notify, responses,
                   posts, sends, flowState, runs, prevStars, prevNotified,
                   schedVars>>

\* notification = SlackTask(webhook_secret=...)(message=message)
SlackTaskRun ==
    /\ flowState = "Running"
    /\ state["notification"] \in {"Pending", "Retrying"}
    /\ Finished(state["message"])
    /\ IF UpstreamVerdict({"message"}) = "Run"
       THEN /\ task_run_count' = [task_run_count EXCEPT !["notification"] = @ + 1]
            /\ \E resp \in SlackResponses :
                /\ sends' = IF resp = "no_token" THEN sends ELSE sends + 1
                /\ state' = [state EXCEPT !["notification"] =
                                IF resp = "ok" THEN "Success"
                                ELSE IF NotifyShouldRetry(task_run_count'["notification"])
                                     THEN "Retrying" ELSE "Failed"]
       ELSE /\ state' = [state EXCEPT !["notification"] = UpstreamVerdict({"message"})]
            /\ UNCHANGED <<sends, task_run_count>>
    /\ UNCHANGED <<repository, owner, stars, now, should_notify, message,
                   responses, posts, flowState, runs, prevStars, prevNotified,
                   schedVars>>

\* flow.run() returns: the run's state is that of its terminal task
FlowFinish ==
    /\ flowState = "Running"
    /\ \A t \in Tasks : Finished(state[t])
    /\ flowState' = IF state["notification"] \in {"Failed", "TriggerFailed"}
                    THEN "Failed" ELSE "Success"
    /\ UNCHANGED <<repository, owner, state, task_run_count, stars, now,
                   should_notify, message, responses, posts, sends, runs,
                   prevStars, prevNotified, schedVars>>

\* The script is executed again (flow.run() of the next invocation): nothing
\* of the previous run is kept by the program; prevStars and prevNotified
\* only record it for the properties below.
NewRun ==
    /\ flowState # "Running"
    /\ runs < MaxRuns
    /\ runs' = runs + 1
    /\ prevStars' = stars
    /\ prevNotified' = (state["notification"] = "Success")
    /\ \E r \in RepositoryNames, o \in OwnerNames :
        repository' = r /\ owner' = o
    /\ state' = FreshStates
    /\ task_run_count' = FreshCounts
    /\ stars' = None /\ should_notify' = None /\ message' = None
    /\ now' = None
    /\ responses' = {}
    /\ posts' = 0 /\ sends' = 0
    /\ flowState' = "Running"
    /\ UNCHANGED schedVars

\* The state of a run before its first task
Idle ==
    /\ state = FreshStates
    /\ task_run_count = FreshCounts
    /\ responses = {}
    /\ posts = 0 /\ sends = 0
    /\ flowState = "Running"
    /\ runs = 1
    /\ prevStars = None
    /\ prevNotified = FALSE

\* No schedule drives the run
Unscheduled == weekday = 0 /\ clock = 0 /\ ran = FALSE /\ hits = 0

Init ==
    /\ Idle /\ Unscheduled
    /\ repository \in RepositoryNames
    /\ owner \in OwnerNames
    /\ stars = None /\ should_notify = None /\ message = None /\ now = None

RunStep ==
    \/ GetStarsTask
    \/ ShouldNotifyTask
    \/ CaseTask
    \/ NotificationMessageTask
    \/ SlackTaskRun
    \/ FlowFinish

Next == RunStep \/ NewRun

Spec == Init /\ [][Next]_vars

\* Every call of the run returns and the flow runner goes on to the next task.
FairSpec == Init /\ [][Next]_vars /\ WF_vars(RunStep)

---------------------------------------------------------------------------
(* ShouldNotify.run on its own: every count of Counts at every time of day *)

InitPolicy ==
    /\ Idle /\ Unscheduled
    /\ repository = DefaultRepository /\ owner = DefaultOwner
    /\ stars \in {<<c>> : c \in Counts}
    /\ now \in Hours \X Minutes
    /\ should_notify = None /\ message = None

PolicyDecide ==
    /\ should_notify = None
    /\ should_notify' = <<ShouldNotifyRun(stars[1], now[1], now[2])>>
    /\ UNCHANGED <<repository, owner, state, task_run_count, stars, now, message,
                   responses, posts, sends, flowState, runs, prevStars,
                   prevNotified, schedVars>>

SpecPolicy == InitPolicy /\ [][PolicyDecide]_vars

---------------------------------------------------------------------------
(* NotificationMessage.run on its own *)

InitFormat ==
    /\ Idle /\ Unscheduled
    /\ repository \in RepositoryNames /\ owner \in OwnerNames
    /\ stars \in {<<c>> : c \in Counts \cup {5000}}
    /\ now = None /\ should_notify = None /\ message = None

FormatMessage ==
    /\ message = None
    /\ message' = <<NotificationMessageRun(repository, owner, stars[1])>>
    /\ UNCHANGED <<repository, owner, state, task_run_count, stars, now,
                   should_notify, responses, posts, sends, flowState, runs,
                   prevStars, prevNotified, schedVars>>

SpecFormat == InitFormat /\ [][FormatMessage]_vars

---------------------------------------------------------------------------
(* The schedule named beside the flow:                                     *)
(*   Schedule(clocks=[IntervalClock(timedelta(minutes=5))],                *)
(*            filters=[is_weekday])                                        *)
(* An event every IntervalMinutes, kept on Monday to Friday; each kept     *)
(* event is one flow run, whose ShouldNotify reads the time of the event.  *)
(* The first event of a day falls on any minute below IntervalMinutes.     *)

IntervalMinutes == 5

MinutesPerDay == 24 * 60

is_weekday(d) == d < 5

InitSchedule ==
    /\ Idle
    /\ repository = DefaultRepository /\ owner = DefaultOwner
    /\ stars = None /\ now = None /\ should_notify = None /\ message = None
    /\ weekday \in 0..6
    /\ clock \in 0..(IntervalMinutes - 1)
    /\ ran = FALSE
    /\ hits = 0

\* A kept event: the flow runs with a count that is no multiple of 1000
ScheduledRun ==
    /\ ~ran
    /\ is_weekday(weekday)
    /\ \E c \in {k \in Counts : k % 1000 # 0} :
        /\ stars' = <<c>>
        /\ now' = <<clock \div 60, clock % 60>>
        /\ should_notify' = <<ShouldNotifyRun(c, clock \div 60, clock % 60)>>
        /\ hits' = IF ShouldNotifyRun(c, clock \div 60, clock % 60)
                   THEN hits + 1 ELSE hits
    /\ ran' = TRUE
    /\ UNCHANGED <<repository, owner, state, task_run_count, message, responses,
                   posts, sends, flowState, runs, prevStars, prevNotified,
                   weekday, clock>>

\* An event on Saturday or Sunday is dropped by the filter
FilteredOut ==
    /\ ~ran
    /\ ~is_weekday(weekday)
    /\ ran' = TRUE
    /\ UNCHANGED <<repository, owner, state, task_run_count, stars, now,
                   should_notify, message, responses, posts, sends, flowState,
                   runs, prevStars, prevNotified, weekday, clock, hits>>

\* The clock's next event; at midnight a new day starts
NextEvent ==
    /\ ran
    /\ ran' = FALSE
    /\ stars' = None /\ now' = None /\ should_notify' = None
    /\ IF clock + IntervalMinutes < MinutesPerDay
       THEN /\ clock' = clock + IntervalMinutes
            /\ UNCHANGED <<weekday, hits>>
       ELSE /\ clock' = clock + IntervalMinutes - MinutesPerDay
            /\ weekday' = (weekday + 1) % 7
            /\ hits' = 0
    /\ UNCHANGED <<repository, owner, state, task_run_count, message, responses,
                   posts, sends, flowState, runs, prevStars, prevNotified>>

NextSchedule == ScheduledRun \/ FilteredOut \/ NextEvent

SpecSchedule == InitSchedule /\ [][NextSchedule]_vars

---------------------------------------------------------------------------
(* Properties of ShouldNotify.run, checked under SpecPolicy *)

Decided == should_notify # None

\* C1: for every star count that is a multiple of 1000, zero included, and
\* every hour and minute of the day, ShouldNotify.run returns true.
C1_MilestoneAlwaysNotifies ==
    (Decided /\ stars[1] % 1000 = 0) => should_notify[1] = TRUE

\* The count 0 at 23:59 has been decided, and the decision is true.
C1_Witness ==
    Decided /\ stars[1] = 0 /\ now = <<23, 59>> /\ should_notify[1] = TRUE

\* C2: for every star count that is no multiple of 1000 and every time
\* outside the daily window (an hour other than 9, or hour 9 with a minute
\* above 5), ShouldNotify.run returns false.
C2_QuietOutsideWindow ==
    (Decided /\ stars[1] % 1000 # 0 /\ (now[1] # 9 \/ now[2] > 5))
        => should_notify[1] = FALSE

\* 1500 stars at 10:02 has been decided, and the decision is false.
C2_Witness ==
    Decided /\ stars[1] = 1500 /\ now = <<10, 2>> /\ should_notify[1] = FALSE

\* C10: the daily window is hour 9 with the minute in 0..5, both ends
\* included: for a count that is no multiple of 1000 the decision is true at
\* 09:00, 09:01, 09:02, 09:03, 09:04 and 09:05 and false at 08:59 and 09:06.
C10_WindowIsClosedRange ==
    (Decided /\ stars[1] % 1000 # 0) =>
        /\ now \in {<<9, 0>>, <<9, 1>>, <<9, 2>>, <<9, 3>>, <<9, 4>>, <<9, 5>>}
              => should_notify[1] = TRUE
        /\ now \in {<<8, 59>>, <<9, 6>>} => should_notify[1] = FALSE

\* 1999 stars at 09:05, the upper end of the window: the decision is true.
C10_Witness ==
    Decided /\ stars[1] = 1999 /\ now = <<9, 5>> /\ should_notify[1] = TRUE

---------------------------------------------------------------------------
(* Properties of a flow run, checked under Spec *)

Attempts == task_run_count["stars"]

FlowEnded == flowState # "Running"

\* C3: the star count is fetched before the decision is computed, the
\* message is built and the Slack send made only in a run whose decision is
\* true, and a run whose decision is false builds no message and makes no
\* webhook call.
C3_FetchThenDecideThenNotify ==
    /\ Decided => (state["stars"] = "Success" /\ stars # None)
    /\ message # None => should_notify = <<TRUE>>
    /\ (sends > 0 \/ task_run_count["notification"] > 0) => should_notify = <<TRUE>>
    /\ should_notify = <<FALSE>> =>
          /\ message = None /\ sends = 0
          /\ task_run_count["message"] = 0
          /\ task_run_count["notification"] = 0

\* A run that decided not to notify has ended, with nothing built or sent.
C3_Witness ==
    /\ flowState = "Success" /\ should_notify = <<FALSE>>
    /\ state["message"] = "Skipped" /\ state["notification"] = "Skipped"

\* C4 (as claimed): GetStars is attempted at most 3 times in a run, each
\* attempt makes exactly one POST to the GraphQL endpoint, and after the
\* third failure the task is failed for good and the run ends failed.
C4_ExactlyOnePostPerAttempt ==
    /\ Attempts <= 3
    /\ posts = Attempts
    /\ (Attempts = 3 /\ "ok" \notin responses) => state["stars"] = "Failed"
    /\ (FlowEnded /\ state["stars"] = "Failed") => flowState = "Failed"

\* C4 (amended): GetStars is attempted at most 3 times in a run; an attempt
\* makes one POST to the GraphQL endpoint once it holds the token and none
\* when the secret lookup fails, so at most one; and after the third failure
\* the task is failed for good, not retried, and the run ends failed.
C4_AtMostThreeAttempts ==
    /\ Attempts <= 3
    /\ posts <= Attempts
    /\ "no_token" \notin responses => posts = Attempts
    /\ (Attempts = 3 /\ "ok" \notin responses) => state["stars"] = "Failed"
    /\ state["stars"] = "Failed" => Attempts = 3
    /\ state["stars"] = "Retrying" => Attempts < 3
    /\ (FlowEnded /\ state["stars"] = "Failed") => flowState = "Failed"

\* Three failed attempts, one of them without a token: two POSTs, run failed.
C4_Witness ==
    /\ flowState = "Failed" /\ state["stars"] = "Failed"
    /\ Attempts = 3 /\ posts = 2

\* C5: in a run whose fetch yields no count (every attempt ends in an HTTP
\* error, a response without the totalCount path, or before the request),
\* no decision is computed, no message built and nothing sent, and the run
\* fails.
C5_NoCountNoNotification ==
    "ok" \notin responses =>
        /\ stars = None /\ should_notify = None /\ message = None
        /\ sends = 0
        /\ task_run_count["should_notify"] = 0
        /\ task_run_count["message"] = 0
        /\ task_run_count["notification"] = 0
        /\ FlowEnded => flowState = "Failed"

\* A run ended failed after HTTP errors and malformed responses only.
C5_Witness ==
    /\ flowState = "Failed"
    /\ responses = {"http_error", "malformed"}
    /\ Attempts = 3 /\ sends = 0

\* C8: the webhook send is attempted at most once in a run; after a failed
\* delivery the send is not retried, the fetch, the decision and the message
\* construction are not run again, and the run ends failed.
C8_DeliveryFailureIsTerminal ==
    /\ [](/\ sends <= 1
          /\ task_run_count["notification"] <= 1
          /\ state["notification"] # "Retrying"
          /\ state["notification"] = "Failed" =>
                /\ task_run_count["should_notify"] = 1
                /\ task_run_count["message"] = 1
                /\ FlowEnded => flowState = "Failed")
    /\ [][(state["notification"] = "Failed" /\ runs' = runs) =>
            /\ task_run_count' = task_run_count
            /\ posts' = posts /\ sends' = sends
            /\ state' = state]_vars

\* The one send of a run was rejected and the run has ended failed.
C8_Witness ==
    /\ flowState = "Failed" /\ state["notification"] = "Failed"
    /\ sends = 1 /\ task_run_count["notification"] = 1

---------------------------------------------------------------------------
(* The run as a state machine, checked under FairSpec *)

Stage ==
    IF flowState = "Success" THEN "END"
    ELSE IF flowState = "Failed"
            \/ \E t \in Tasks : state[t] \in {"Failed", "TriggerFailed"}
         THEN "FAILED"
    ELSE IF state["notification"] = "Success" THEN "SENT"
    ELSE IF state["message"] = "Success" THEN "FORMATTED"
    ELSE IF state["should_notify"] = "Success"
         THEN IF should_notify[1] THEN "DECIDED_NOTIFY" ELSE "DECIDED_SKIP"
    ELSE IF state["stars"] = "Success" THEN "FETCHED"
    ELSE "START"

StageSteps ==
    {<<"START", "FETCHED">>, <<"FETCHED", "DECIDED_NOTIFY">>,
     <<"DECIDED_NOTIFY", "FORMATTED">>, <<"FORMATTED", "SENT">>,
     <<"SENT", "END">>, <<"FETCHED", "DECIDED_SKIP">>,
     <<"DECIDED_SKIP", "END">>, <<"START", "FAILED">>,
     <<"FORMATTED", "FAILED">>}

InWindow(t) == t[1] = 9 /\ t[2] \in 0..5

\* C9: every run ends; within a run the stage only moves along
\* START -> FETCHED -> DECIDED_NOTIFY -> FORMATTED -> SENT -> END or
\* START -> FETCHED -> DECIDED_SKIP -> END, or into the failure state from
\* the fetch or the send; no task but the fetch runs twice; and the decision
\* is a function of the run's own count and time, so that a run whose count
\* is a multiple of 1000 notifies whatever the run before it did.
C9_RunLifecycle ==
    /\ (flowState = "Running") ~> (flowState # "Running")
    /\ [][runs' = runs => (Stage' = Stage \/ <<Stage, Stage'>> \in StageSteps)]_vars
    /\ [](\A t \in Tasks \ {"stars"} : task_run_count[t] <= 1)
    /\ [](Decided => should_notify[1] = (stars[1] % 1000 = 0 \/ InWindow(now)))
    /\ []((flowState = "Success" /\ stars[1] % 1000 = 0)
            => (should_notify = <<TRUE>> /\ state["notification"] = "Success"))

\* The second of two runs with the same count, a multiple of 1000, has ended
\* after notifying, as the first did.
C9_Witness ==
    /\ runs = 2 /\ prevNotified /\ prevStars = stars
    /\ flowState = "Success" /\ stars[1] % 1000 = 0
    /\ state["notification"] = "Success" /\ sends = 1

---------------------------------------------------------------------------
(* Property of NotificationMessage.run, checked under SpecFormat *)

\* How many times the text sub occurs in the text s
Occurrences(sub, s) ==
    Cardinality({i \in 1..(Len(s) - Len(sub) + 1) :
                    SubSeq(s, i, i + Len(sub) - 1) = sub})

IndexOf(ch, s) == CHOOSE i \in 1..Len(s) : s[i] = ch /\ \A j \in 1..(i - 1) : s[j] # ch

\* The URL of a mrkdwn link <url|label>
LinkUrl(s) == SubSeq(s, IndexOf("<", s) + 1, IndexOf("|", s) - 1)

StargazersUrl(own, repo) ==
    <<"h", "t", "t", "p", "s", ":", "/", "/", "g", "i", "t", "h", "u", "b",
      ".", "c", "o", "m", "/">>
    \o own \o <<"/">> \o repo
    \o <<"/", "s", "t", "a", "r", "g", "a", "z", "e", "r", "s">>

\* C6: the message has two blocks; its header text holds the repository
\* name once and the count once; the link of its body block is
\* https://github.com/<owner>/<repository>/stargazers with the owner and the
\* repository that were given.
C6_MessageNamesOwnerAndRepository ==
    message # None =>
        LET blocks == message[1].blocks
        IN  /\ Len(blocks) = 2
            /\ Occurrences(repository, blocks[1].text.text) = 1
            /\ Occurrences(Str(stars[1]), blocks[1].text.text) = 1
            /\ LinkUrl(blocks[2].text.text) = StargazersUrl(owner, repository)

---------------------------------------------------------------------------
(* Property of the schedule, checked under SpecSchedule *)

\* C7: with a run every 5 minutes and a count that is no multiple of 1000
\* all day, at most one run of a day is decided true, and on a day with runs
\* exactly one is, once the window has passed.
C7_OneWindowRunPerDay ==
    /\ hits <= 1
    /\ (is_weekday(weekday) /\ clock > 9 * 60 + 5) => hits = 1

=============================================================================
